---- MODULE Spec2Model ----
(***************************************************************************)
(* A model of the bt-mqtt scanner: the Deduplicator (deduplicator.py), the *)
(* detection path BLEScanner._handle_advertisement ->                      *)
(* ScannerApp._handle_advertisement -> MQTTPublisher.publish_advertisement *)
(* (ble_scanner.py, app.py, mqtt_publisher.py), the publisher's connection *)
(* and delivery callbacks, the scan loop of BLEScanner with start() and    *)
(* stop(), and ScannerApp.run with the heartbeat task and shutdown().      *)
(*                                                                         *)
(* time.time() is modelled as the integer clock `now`, in seconds, which   *)
(* never runs backwards.                                                   *)
(***************************************************************************)
EXTENDS Integers, Sequences, FiniteSets, TLC

(***************************************************************************)
(* Bounds of the model.                                                    *)
(***************************************************************************)
\* the Deduplicator's clock runs over 0..MaxNow
MaxNow == 3
\* Deduplicator(interval_seconds) is drawn from 0..MaxInterval
MaxInterval == 2
\* clear_old_entries(max_age_seconds) is drawn from 0..MaxAge
MaxAge == 0
\* number of Deduplicator calls recorded in a run
MaxCalls == 4

\* number of detections the capture backend delivers in a run
MaxDetections == 2
\* number of detections delivered in a run with the clock running
MaxTimedDetections == 3
\* number of status publishes requested by connect notifications in a run
MaxStatus == 1
\* number of calls of MQTTPublisher.disconnect in a run
MaxDisconnects == 1
\* number of detections delivered in a run that ends with disconnect()
MaxPubDetections == 1
\* number of timeouts of the 5 s wait of the scan loop recorded in a run
MaxPolls == 1
\* number of calls of BLEScanner.start and of BLEScanner.stop in a run
MaxStartCalls == 2
MaxStopCalls == 2
\* number of detections delivered in a run in which processing may raise
MaxSinkCalls == 2
\* number of iterations of the heartbeat loop in a run
MaxBeats == 2
\* number of iterations of the heartbeat loop in a run of the whole life cycle
MaxLifeBeats == 1
\* the pipeline's clock runs over 0..MaxTime, in steps of ClockStep seconds
MaxTime == 35
ClockStep == 5

\* config.py:39, DeduplicationConfig.interval_seconds
DedupIntervalSeconds == 30
\* ble_scanner.py:134   max_retries = 10
MaxRetries == 10
\* ble_scanner.py:190   wait_time = min(5 * retry_count, 30)
BackoffStep == 5
BackoffCap == 30

\* device addresses as the capture backend reports them
RawAddrs == {"aa:01", "AA:01", "bb:02"}
\* normalised (upper-case) device addresses
Addrs == {"AA:01", "BB:02"}
\* the values of config.blocklist.devices tried; "bb:02" is an entry that is
\* not written in upper case
BlocklistChoices == {{}, {"AA:01", "bb:02"}}

VARIABLES
    \* ---- Deduplicator (deduplicator.py) ----
    now,               \* time.time()
    interval_seconds,  \* Deduplicator.interval_seconds
    last_seen,         \* Deduplicator._last_seen: a dict, address -> time
    dlog,              \* history: the calls made on the Deduplicator, in order
    \* ---- Config (config.py), immutable after load ----
    blocklist_enabled, \* config.blocklist.enabled
    blocklist_devices, \* config.blocklist.devices
    dedup_enabled,     \* config.deduplication.enabled
    hb_enabled,        \* config.heartbeat.enabled
    \* ---- MQTTPublisher (mqtt_publisher.py) ----
    loop,              \* the transport's delivery loop: "none", "running",
                       \* "dead" (ended by an exception of a callback) or
                       \* "failed" (connect() raised)
    connected,         \* MQTTPublisher._connected
    messages_sent,     \* MQTTPublisher._messages_sent
    messages_failed,   \* MQTTPublisher._messages_failed
    tx_log,            \* the calls of _client.publish, in order; the mid of a
                       \* message is its index
    acked,             \* the mids the delivery loop has acknowledged
    disc_log,          \* history: the calls of MQTTPublisher.disconnect
    \* ---- ScannerApp (app.py) ----
    devices_seen,      \* ScannerApp._devices_seen
    messages_published,\* ScannerApp._messages_published
    status_pending,    \* _publish_status tasks created and not yet run
    events,            \* history: the detections delivered, in order
    status_log,        \* history: the calls of MQTTPublisher.publish_status
    sink_log,          \* history: the detections whose processing raised
    run_pc,            \* where ScannerApp.run (and the shutdown it ends
                       \* with) stands
    run_exc,           \* an exception is propagating out of run()
    shutdown_requested,\* ScannerApp._shutdown_event is set
    hb_pc,             \* ScannerApp._heartbeat_task: "none", "sleeping",
                       \* "cancelling" (cancel() called, not yet delivered)
                       \* or "done"
    beats,             \* history: how each iteration of _heartbeat_loop ended
    order,             \* history: the steps of ScannerApp.shutdown, in order
    exit_code,         \* how the process ended: "none", "zero" or "nonzero"
    \* ---- BLEScanner (ble_scanner.py) ----
    running,           \* BLEScanner._running
    receiver,          \* BLEScanner._scanner, the BleakScanner: "none",
                       \* "created", "started" or "stopped"
    scan_pc,           \* BLEScanner._scan_task, the await _scan_loop stands at:
                       \* "none", "pending" (created, not yet run), "starting",
                       \* "scanning", "retrying", "done" or "cancelled"
    retry_count,       \* retry_count of _scan_loop
    last_error,        \* how _scan_loop classified the last exception of
                       \* _scanner.start(): "none", "not_ready", "permission"
                       \* or "other"
    stop_pc,           \* BLEScanner.stop: "none" or "await_task"
    old_task,          \* the scan task start() replaced in _scan_task:
                       \* "none", "active" (alive, no cancellation pending),
                       \* "cancelling" (alive, cancelled by the stop() that
                       \* awaits it) or "ended"
    gave_up,           \* history: _scan_loop gave up at max_retries
    attempts,          \* history: calls of _scanner.start() by this task
    waits,             \* history: the wait_time of each backoff of this task
    path,              \* history: the states of the scan machine since the
                       \* last start()
    polls,             \* history: the timeouts of the 5 s wait while scanning
    start_calls,       \* history: calls of BLEScanner.start
    stop_calls         \* history: calls of BLEScanner.stop

dedupVars == <<now, interval_seconds, last_seen, dlog>>
configVars == <<blocklist_enabled, blocklist_devices, dedup_enabled, hb_enabled>>
pubVars == <<loop, connected, messages_sent, messages_failed, tx_log, acked,
             disc_log>>
appVars == <<devices_seen, messages_published, status_pending, events, status_log,
             sink_log>>
lifeVars == <<run_pc, run_exc, shutdown_requested, hb_pc, beats, order, exit_code>>
scanVars == <<running, receiver, scan_pc, retry_count, last_error, stop_pc, gave_up,
              attempts, waits, path, polls, start_calls, stop_calls, old_task>>
vars == <<now, interval_seconds, last_seen, dlog,
          blocklist_enabled, blocklist_devices, dedup_enabled, hb_enabled,
          loop, connected, messages_sent, messages_failed, tx_log, acked,
          disc_log,
          devices_seen, messages_published, status_pending, events, status_log,
          sink_log,
          run_pc, run_exc, shutdown_requested, hb_pc, beats, order, exit_code,
          running, receiver, scan_pc, retry_count, last_error, stop_pc, gave_up,
          attempts, waits, path, polls, start_calls, stop_calls, old_task>>

Last(s) == s[Len(s)]

\* BLEScanner.__init__ (ble_scanner.py:66-84): no receiver, not running, no
\* scan task
ScanInit ==
    /\ running = FALSE
    /\ receiver = "none"
    /\ scan_pc = "none"
    /\ retry_count = 0
    /\ last_error = "none"
    /\ stop_pc = "none"
    /\ gave_up = FALSE
    /\ attempts = 0
    /\ waits = <<>>
    /\ path = <<"Idle">>
    /\ polls = 0
    /\ start_calls = 0
    /\ stop_calls = 0
    /\ old_task = "none"

\* ScannerApp.__init__ (app.py:23-36): run() not yet called
LifeInit ==
    /\ run_pc = "init"
    /\ run_exc = FALSE
    /\ shutdown_requested = FALSE
    /\ hb_pc = "none"
    /\ beats = <<>>
    /\ order = <<>>
    /\ exit_code = "none"

(***************************************************************************)
(* Deduplicator                                                            *)
(***************************************************************************)

\* mutant of IntervalElapsed: the boundary elapsed == interval is dropped
IntervalElapsedStrict(elapsed, interval) == elapsed > interval

\* deduplicator.py:41   if elapsed >= self.interval_seconds
IntervalElapsed(elapsed, interval) == elapsed >= interval

\* deduplicator.py:31-51, the value should_publish returns
ShouldPublishResult(table, a, t, interval) ==
    IF a \notin DOMAIN table
    THEN TRUE
    ELSE IntervalElapsed(t - table[a], interval)

\* the dict `table` with table[a] = t
DictSet(table, a, t) ==
    [b \in (DOMAIN table) \cup {a} |-> IF b = a THEN t ELSE table[b]]

\* mutant of ShouldPublishTable: a first sighting is not recorded
ShouldPublishTableForgetFirst(table, a, t, interval) ==
    IF a \notin DOMAIN table
    THEN table
    ELSE IF IntervalElapsed(t - table[a], interval)
         THEN DictSet(table, a, t)
         ELSE table

\* mutant of ShouldPublishTable: the time of every sighting is recorded (last
\* seen), also of a sighting that is dropped
ShouldPublishTableLastSeen(table, a, t, interval) == DictSet(table, a, t)

\* mutant of ShouldPublishTable: a publish replaces the whole table by the
\* entry of the published address
ShouldPublishTableSingle(table, a, t, interval) ==
    IF a \notin DOMAIN table
    THEN DictSet(<<>>, a, t)
    ELSE IF IntervalElapsed(t - table[a], interval)
         THEN DictSet(<<>>, a, t)
         ELSE table

\* deduplicator.py:31-51, _last_seen after should_publish
ShouldPublishTable(table, a, t, interval) ==
    IF a \notin DOMAIN table
    THEN DictSet(table, a, t)
    ELSE IF IntervalElapsed(t - table[a], interval)
         THEN DictSet(table, a, t)
         ELSE table

\* mutant of OldKeys: an entry whose age equals max_age is removed too
OldKeysInclusive(table, t, max_age) ==
    {a \in DOMAIN table : t - table[a] >= max_age}

\* deduplicator.py:73-75, old_keys
OldKeys(table, t, max_age) ==
    {a \in DOMAIN table : t - table[a] > max_age}

\* deduplicator.py:77-78, _last_seen after the deletions
DictRemove(table, keys) ==
    [b \in (DOMAIN table) \ keys |-> table[b]]

\* the state of the pipeline after ScannerApp.__init__ and the construction
\* of the MQTTPublisher (app.py:23-36, mqtt_publisher.py:72-78).
\* config.deduplication.enabled, which no step of the pipeline reads, has its
\* default (config.py:38).
PipelineInit ==
    /\ blocklist_enabled \in BOOLEAN
    /\ blocklist_devices \in BlocklistChoices
    /\ dedup_enabled = FALSE
    /\ hb_enabled = TRUE
    /\ ScanInit
    /\ LifeInit
    /\ status_log = <<>>
    /\ sink_log = <<>>
    /\ loop = "none"
    /\ connected = FALSE
    /\ messages_sent = 0
    /\ messages_failed = 0
    /\ tx_log = <<>>
    /\ acked = {}
    /\ disc_log = <<>>
    /\ devices_seen = {}
    /\ messages_published = 0
    /\ status_pending = 0
    /\ events = <<>>

\* Deduplicator.__init__, in a process that runs no pipeline
DedupInit ==
    /\ now = 0
    /\ interval_seconds \in 0..MaxInterval
    /\ last_seen = <<>>
    /\ dlog = <<>>
    /\ blocklist_enabled = FALSE
    /\ blocklist_devices = {}
    /\ dedup_enabled = TRUE
    /\ hb_enabled = TRUE
    /\ ScanInit
    /\ LifeInit
    /\ status_log = <<>>
    /\ sink_log = <<>>
    /\ loop = "none"
    /\ connected = FALSE
    /\ messages_sent = 0
    /\ messages_failed = 0
    /\ tx_log = <<>>
    /\ acked = {}
    /\ disc_log = <<>>
    /\ devices_seen = {}
    /\ messages_published = 0
    /\ status_pending = 0
    /\ events = <<>>

\* the clock advances between calls
Tick ==
    /\ now < MaxNow
    /\ now' = now + 1
    /\ UNCHANGED <<interval_seconds, last_seen, dlog, configVars, scanVars, lifeVars, pubVars, appVars>>

\* Deduplicator.should_publish(device_address)
should_publish(a) ==
    /\ Len(dlog) < MaxCalls
    /\ last_seen' = ShouldPublishTable(last_seen, a, now, interval_seconds)
    /\ dlog' = Append(dlog, [op |-> "should_publish", addr |-> a, t |-> now,
                             ret |-> ShouldPublishResult(last_seen, a, now, interval_seconds),
                             max_age |-> 0, count |-> 0, removed |-> {}])
    /\ UNCHANGED <<now, interval_seconds, configVars, scanVars, lifeVars, pubVars, appVars>>

\* Deduplicator.clear_old_entries(max_age_seconds)
clear_old_entries(max_age) ==
    /\ Len(dlog) < MaxCalls
    /\ LET old_keys == OldKeys(last_seen, now, max_age)
       IN /\ last_seen' = DictRemove(last_seen, old_keys)
          /\ dlog' = Append(dlog, [op |-> "clear_old_entries", addr |-> "", t |-> now,
                                   ret |-> FALSE, max_age |-> max_age,
                                   count |-> Cardinality(old_keys), removed |-> old_keys])
    /\ UNCHANGED <<now, interval_seconds, configVars, scanVars, lifeVars, pubVars, appVars>>

DedupNext ==
    \/ Tick
    \/ \E a \in Addrs : should_publish(a)
    \/ \E max_age \in 0..MaxAge : clear_old_entries(max_age)

SpecDedup == DedupInit /\ [][DedupNext]_vars

(***************************************************************************)
(* The detection path and the publisher                                    *)
(***************************************************************************)

\* ble_scanner.py:237   device.address.upper()
Upper(raw) ==
    CASE raw = "aa:01" -> "AA:01"
      [] raw = "bb:02" -> "BB:02"
      [] OTHER -> raw

\* mutant of IsBlocked: the membership test is inverted
IsBlockedInverted(addr) ==
    blocklist_enabled /\ addr \notin blocklist_devices

\* app.py:121-124, the blocklist gate
IsBlocked(addr) ==
    blocklist_enabled /\ addr \in blocklist_devices

\* mutant of SendOutcomes: the connected check is missing
SendOutcomesUnguarded(conn) == {"ok", "rejected", "raised"}

\* mqtt_publisher.py:106-132 and 143-172: what becomes of a publish call.
\* "none": not connected, _client.publish is not called; "ok": the transport
\* accepts the message (rc == MQTT_ERR_SUCCESS); "rejected": it returns another
\* rc; "raised": building or sending the message raises.
SendOutcomes(conn) ==
    IF ~conn THEN {"none"} ELSE {"ok", "rejected", "raised"}

\* mutant of PublishReturns: every send made while connected counts as success
PublishReturnsIgnoringRc(outcome) == outcome # "none"

\* mqtt_publisher.py:121-132 and 163-172, the value a publish call returns
PublishReturns(outcome) == outcome = "ok"

\* mutant of FailedAfter: a rejected send is not counted
FailedAfterUncounted(failed, outcome) ==
    IF outcome \in {"none", "raised"} THEN failed + 1 ELSE failed

\* mqtt_publisher.py:108, 126, 131: _messages_failed after publish_advertisement
FailedAfter(failed, outcome) ==
    IF outcome = "ok" THEN failed ELSE failed + 1

\* mqtt_publisher.py:113   f"{self.topic_prefix}/raw/{self.scanner_id}"
EventTopic == "bt-mqtt/raw/scanner-01"
\* mqtt_publisher.py:145   f"{self.topic_prefix}/scanner/{self.scanner_id}/status"
StatusTopic == "bt-mqtt/scanner/scanner-01/status"

\* mqtt_publisher.py:119 and 161: publish_status passes retain=True,
\* publish_advertisement leaves the flag at its default
RetainOf(kind) == kind = "status"

\* mqtt_publisher.py:113 and 145: the topic each publish call builds
TopicOf(kind) == IF kind = "status" THEN StatusTopic ELSE EventTopic

\* mqtt_publisher.py:119 and 161: the calls of _client.publish after a publish
\* call of `kind` ("event": publish_advertisement, "status": publish_status)
TxAfter(log, outcome, kind, ev, addr) ==
    IF outcome = "none"
    THEN log
    ELSE Append(log, [kind |-> kind, ev |-> ev, addr |-> addr,
                      topic |-> TopicOf(kind),
                      retain |-> RetainOf(kind), outcome |-> outcome])

\* mutant of ConnectedAfterPublish: a send that fails marks the link as down
ConnectedAfterPublishInferred(conn, outcome) ==
    IF outcome \in {"rejected", "raised"} THEN FALSE ELSE conn

\* mqtt_publisher.py:97-172: no publish call writes _connected
ConnectedAfterPublish(conn, outcome) == conn

\* mutant of StatusFailedAfter: a failed status publish is counted like a
\* failed event publish
StatusFailedAfterCounted(failed, outcome) ==
    IF outcome = "ok" THEN failed ELSE failed + 1

\* mqtt_publisher.py:143-172: publish_status never writes _messages_failed
StatusFailedAfter(failed, outcome) == failed

\* mutant of SentAfterAck: the sent counter is not incremented
SentAfterAckLost(sent) == sent

\* mqtt_publisher.py:233
SentAfterAck(sent) == sent + 1

\* mutant of TxAfterConnect: on a successful connect the first event that was
\* refused while the link was down is handed to the transport
TxAfterConnectRedeliver(log, rc) ==
    LET lost == {i \in 1..Len(events) :
                    /\ events[i].called /\ events[i].outcome = "none"
                    /\ \A m \in 1..Len(log) : log[m].ev # i}
    IN IF rc = 0 /\ lost # {}
       THEN LET i == CHOOSE i \in lost : \A j \in lost : i <= j
            IN Append(log, [kind |-> "event", ev |-> i, addr |-> events[i].addr,
                            topic |-> EventTopic,
                            retain |-> FALSE, outcome |-> "ok"])
       ELSE log

\* mqtt_publisher.py:199-207: _on_connect hands nothing to the transport
TxAfterConnect(log, rc) == log

\* mutant of SentAfterConnect: the statistics start again with every
\* connection, as connect_time does
SentAfterConnectReset(sent, rc) == IF rc = 0 THEN 0 ELSE sent

\* mqtt_publisher.py:199-207: _on_connect writes _connected and
\* _connect_time, no counter
SentAfterConnect(sent, rc) == sent

\* what becomes of a disconnect() call: "ok", or _client.loop_stop() raises,
\* or _client.disconnect() raises
DisconnectOutcomes == {"ok", "raised_loop_stop", "raised_disconnect"}

\* mqtt_publisher.py:93: the delivery loop after disconnect()
LoopAfterDisconnect(l, outcome) ==
    IF outcome = "raised_loop_stop" THEN l ELSE "stopped"

\* mutant of ConnectedAfterDisconnect: disconnect() leaves the flag to the
\* notification handlers
ConnectedAfterDisconnectKept(conn, outcome) == conn

\* mqtt_publisher.py:95   self._connected = False, reached when neither
\* transport call raised
ConnectedAfterDisconnect(conn, outcome) ==
    IF outcome = "ok" THEN FALSE ELSE conn

\* MQTTPublisher.disconnect (mqtt_publisher.py:90-95) with the transport's
\* `outcome`
PubDisconnect(outcome) ==
    /\ loop' = LoopAfterDisconnect(loop, outcome)
    /\ connected' = ConnectedAfterDisconnect(connected, outcome)
    /\ disc_log' = Append(disc_log, [conn |-> connected, loop |-> loop,
                                     outcome |-> outcome])

\* the mids the transport has accepted and not yet acknowledged
InFlight == {m \in 1..Len(tx_log) : tx_log[m].outcome = "ok"} \ acked

\* the number of status publishes requested so far
StatusRequested == status_pending + Len(status_log)

Init ==
    /\ PipelineInit
    /\ now = 0
    /\ interval_seconds = DedupIntervalSeconds
    /\ last_seen = <<>>
    /\ dlog = <<>>

\* MQTTPublisher.connect, called once by ScannerApp.run (app.py:59)
connect ==
    /\ loop = "none"
    /\ \/ loop' = "running"
       \/ loop' = "failed"
    /\ UNCHANGED <<dedupVars, configVars, scanVars, lifeVars, connected, messages_sent,
                   messages_failed, tx_log, acked, disc_log, appVars>>

\* MQTTPublisher._on_connect(rc), with ScannerApp._on_mqtt_connect as the
\* on_connect_callback. The callback runs on the transport's delivery loop;
\* asyncio.create_task either schedules _publish_status or raises (no running
\* event loop in the calling thread), and an exception of a callback may end
\* the delivery loop.
on_connect(rc) ==
    /\ loop = "running"
    /\ IF rc = 0
       THEN /\ connected' = TRUE
            /\ \/ /\ StatusRequested < MaxStatus
                  /\ status_pending' = status_pending + 1
                  /\ loop' = loop
               \/ /\ status_pending' = status_pending
                  /\ loop' \in {"running", "dead"}
       ELSE /\ connected' = FALSE
            /\ UNCHANGED <<status_pending, loop>>
    /\ tx_log' = TxAfterConnect(tx_log, rc)
    /\ messages_sent' = SentAfterConnect(messages_sent, rc)
    /\ UNCHANGED <<dedupVars, configVars, scanVars, lifeVars, messages_failed,
                   acked, disc_log, devices_seen, messages_published, events,
                   status_log, sink_log>>

\* MQTTPublisher._on_disconnect(rc), with ScannerApp._on_mqtt_disconnect
on_disconnect ==
    /\ loop = "running"
    /\ connected' = FALSE
    /\ UNCHANGED <<dedupVars, configVars, scanVars, lifeVars, loop, messages_sent, messages_failed,
                   tx_log, acked, disc_log, appVars>>

\* MQTTPublisher._on_publish(mid)
on_publish(mid) ==
    /\ loop = "running"
    /\ mid \in InFlight
    /\ messages_sent' = SentAfterAck(messages_sent)
    /\ acked' = acked \cup {mid}
    /\ UNCHANGED <<dedupVars, configVars, scanVars, lifeVars, loop, connected, messages_failed,
                   tx_log, disc_log, appVars>>

\* mutant of SeenAfter: a blocklisted address is not recorded
SeenAfterUnlessBlocked(seen, addr) ==
    IF IsBlocked(addr) THEN seen ELSE seen \cup {addr}

\* app.py:118   self._devices_seen.add(advertisement.device_address), the
\* first statement of the handler, before the blocklist is consulted
SeenAfter(seen, addr) == seen \cup {addr}

\* BLEScanner._handle_advertisement (ble_scanner.py:194-258) ->
\* ScannerApp._handle_advertisement (app.py:111-130) ->
\* MQTTPublisher.publish_advertisement (mqtt_publisher.py:97-132)
handle_advertisement(raw) ==
    /\ loop \in {"running", "dead"}
    /\ LET addr == Upper(raw)
           ev == Len(events) + 1
       IN /\ devices_seen' = SeenAfter(devices_seen, addr)
          /\ IF IsBlocked(addr)
             THEN /\ events' = Append(events,
                         [addr |-> addr, t |-> now, conn |-> connected,
                          called |-> FALSE, outcome |-> "none", ret |-> FALSE])
                  /\ UNCHANGED <<messages_failed, tx_log, messages_published,
                                 connected>>
             ELSE \E outcome \in SendOutcomes(connected) :
                  /\ events' = Append(events,
                         [addr |-> addr, t |-> now, conn |-> connected,
                          called |-> TRUE, outcome |-> outcome,
                          ret |-> PublishReturns(outcome)])
                  /\ tx_log' = TxAfter(tx_log, outcome, "event", ev, addr)
                  /\ connected' = ConnectedAfterPublish(connected, outcome)
                  /\ messages_failed' = FailedAfter(messages_failed, outcome)
                  /\ messages_published' =
                        IF PublishReturns(outcome)
                        THEN messages_published + 1
                        ELSE messages_published
    /\ UNCHANGED <<dedupVars, configVars, scanVars, lifeVars, loop,
                   messages_sent, acked, disc_log, status_pending, status_log,
                   sink_log>>

\* where the processing of a detection raises: "normalize", while
\* BLEScanner._handle_advertisement builds the Advertisement
\* (ble_scanner.py:204-251), or "callback", in ScannerApp._handle_advertisement
\* after the address was recorded and before the publisher is called
\* (app.py:120-127). An exception while sending is an outcome of
\* publish_advertisement, which catches it itself (mqtt_publisher.py:129-132).
FaultStages == {"normalize", "callback"}

\* mutant of SinkEscapes: the try block ends before the callback is called
SinkEscapesCallback(stage) == stage = "callback"

\* ble_scanner.py:203, 257-258: the whole body of the sink, the call of the
\* callback included, is inside try/except Exception, which logs: no
\* exception of a stage leaves the sink
SinkEscapes(stage) == FALSE

\* BLEScanner._handle_advertisement (ble_scanner.py:194-258) for a detection
\* whose processing raises at `stage`
handle_advertisement_fault(raw, stage) ==
    /\ loop \in {"running", "dead"}
    /\ sink_log' = Append(sink_log,
           [raw |-> raw, stage |-> stage, escaped |-> SinkEscapes(stage),
            after |-> Len(events)])
    /\ devices_seen' = IF stage = "callback"
                       THEN SeenAfter(devices_seen, Upper(raw))
                       ELSE devices_seen
    /\ UNCHANGED <<dedupVars, configVars, scanVars, lifeVars, pubVars,
                   messages_published, status_pending, events, status_log>>

\* mqtt_publisher.py:185-189, the counters get_statistics returns
Statistics ==
    [connected |-> connected,
     messages_sent |-> messages_sent,
     messages_failed |-> messages_failed]

\* app.py:158-186, the counters of the status snapshot _publish_status
\* builds from get_statistics and the application's own counters
StatusSnapshot ==
    [messages_sent |-> messages_published,
     messages_dropped |-> Statistics.messages_failed,
     devices_seen |-> Cardinality(devices_seen),
     mqtt_connected |-> Statistics.connected]

\* ScannerApp._publish_status (app.py:155-189), which builds StatusSnapshot,
\* -> MQTTPublisher.publish_status (mqtt_publisher.py:134-172) with the
\* transport's `outcome`
StatusPublish(outcome) ==
    /\ tx_log' = TxAfter(tx_log, outcome, "status", 0, "")
    /\ connected' = ConnectedAfterPublish(connected, outcome)
    /\ messages_failed' = StatusFailedAfter(messages_failed, outcome)
    /\ status_log' = Append(status_log,
           [conn |-> connected, outcome |-> outcome,
            ret |-> PublishReturns(outcome)])

\* ScannerApp._publish_status (app.py:155-189) ->
\* MQTTPublisher.publish_status (mqtt_publisher.py:134-172), run as the task
\* _on_mqtt_connect created
publish_status ==
    /\ status_pending > 0
    /\ status_pending' = status_pending - 1
    /\ \E outcome \in SendOutcomes(connected) : StatusPublish(outcome)
    /\ UNCHANGED <<dedupVars, configVars, scanVars, lifeVars, loop, messages_sent,
                   acked, disc_log, devices_seen, messages_published, events,
                   sink_log>>

\* MQTTPublisher.disconnect, called by ScannerApp.shutdown (app.py:105-107)
disconnect ==
    /\ Len(disc_log) < MaxDisconnects
    /\ \E outcome \in DisconnectOutcomes : PubDisconnect(outcome)
    /\ UNCHANGED <<dedupVars, configVars, scanVars, lifeVars, messages_sent,
                   messages_failed, tx_log, acked, appVars>>

Next ==
    \/ connect
    \/ \E rc \in {0, 5} : on_connect(rc)
    \/ on_disconnect
    \/ \E mid \in 1..Len(tx_log) : on_publish(mid)
    \/ \E raw \in RawAddrs : Len(events) < MaxDetections /\ handle_advertisement(raw)
    \/ publish_status

Spec == Init /\ [][Next]_vars

\* the publisher with every call ScannerApp makes on it, disconnect() included
NextPub ==
    \/ connect
    \/ disconnect
    \/ \E rc \in {0, 5} : on_connect(rc)
    \/ on_disconnect
    \/ \E mid \in 1..Len(tx_log) : on_publish(mid)
    \/ \E raw \in RawAddrs : Len(events) < MaxPubDetections /\ handle_advertisement(raw)
    \/ publish_status

SpecPub == Init /\ [][NextPub]_vars

\* the detection sink with detections whose processing raises
NextSink ==
    \/ connect
    \/ \E rc \in {0, 5} : on_connect(rc)
    \/ on_disconnect
    \/ \E raw \in RawAddrs :
          /\ Len(events) + Len(sink_log) < MaxSinkCalls
          /\ handle_advertisement(raw)
    \/ \E raw \in RawAddrs, stage \in FaultStages :
          /\ Len(events) + Len(sink_log) < MaxSinkCalls
          /\ handle_advertisement_fault(raw, stage)

SpecSink == Init /\ [][NextSink]_vars

\* the clock advances between detections
Advance ==
    /\ now + ClockStep <= MaxTime
    /\ now' = now + ClockStep
    /\ UNCHANGED <<interval_seconds, last_seen, dlog, configVars, scanVars, lifeVars, pubVars, appVars>>

\* the pipeline once the broker has accepted the connection and
\* _on_mqtt_connect has scheduled the first status publish, with
\* deduplication enabled and no blocklist in the configuration
InitTimed ==
    /\ now = 0
    /\ interval_seconds = DedupIntervalSeconds
    /\ last_seen = <<>>
    /\ dlog = <<>>
    /\ blocklist_enabled = FALSE
    /\ blocklist_devices = {}
    /\ dedup_enabled = TRUE
    /\ hb_enabled = TRUE
    /\ ScanInit
    /\ LifeInit
    /\ status_log = <<>>
    /\ sink_log = <<>>
    /\ loop = "running"
    /\ connected = TRUE
    /\ messages_sent = 0
    /\ messages_failed = 0
    /\ tx_log = <<>>
    /\ acked = {}
    /\ disc_log = <<>>
    /\ devices_seen = {}
    /\ messages_published = 0
    /\ status_pending = 1
    /\ events = <<>>

\* the broker link stays up while the clock runs
NextTimed ==
    \/ Advance
    \/ \E raw \in RawAddrs : Len(events) < MaxTimedDetections /\ handle_advertisement(raw)
    \/ \E mid \in 1..Len(tx_log) : on_publish(mid)
    \/ publish_status

\* the pipeline with the clock running
SpecTimed == InitTimed /\ [][NextTimed]_vars

(***************************************************************************)
(* Properties of the detection path and the publisher                      *)
(***************************************************************************)

\* a detection was delivered in this step; its record is Last(events')
Detected == Len(events') = Len(events) + 1

\* the detections of address a, and those passed to publish_advertisement
DetectionsOf(a) == {i \in 1..Len(events) : events[i].addr = a}
ForwardedOf(a) == {i \in DetectionsOf(a) : events[i].called}

\* C1: with deduplication enabled (interval 30 s) and the publisher
\* connected, detections of one address at t=0 and t=10 cause exactly one
\* event publish, the one of t=0, and a third detection at t=35 a second one.
C1_EndToEnd ==
    \A a \in Addrs :
       (/\ dedup_enabled
        /\ interval_seconds = DedupIntervalSeconds
        /\ ~(blocklist_enabled /\ a \in blocklist_devices)
        /\ \A i \in DetectionsOf(a) : events[i].conn)
       => /\ (/\ Cardinality(DetectionsOf(a)) = 2
              /\ {events[i].t : i \in DetectionsOf(a)} = {0, 10})
             => /\ Cardinality(ForwardedOf(a)) = 1
                /\ {events[i].t : i \in ForwardedOf(a)} = {0}
          /\ (/\ Cardinality(DetectionsOf(a)) = 3
              /\ {events[i].t : i \in DetectionsOf(a)} = {0, 10, 35})
             => /\ Cardinality(ForwardedOf(a)) = 2
                /\ {events[i].t : i \in ForwardedOf(a)} = {0, 35}

\* C7 as stated: whenever the blocklist contains A, no detection of A is
\* passed to publish_advertisement.
C7_Original ==
    \A i \in 1..Len(events) :
       events[i].addr \in blocklist_devices => ~events[i].called

\* C7: when the blocklist is enabled and contains A, no detection of A is
\* passed to publish_advertisement or handed to the transport, whatever the
\* connection state.
C7_EnabledBlocklist ==
    /\ \A i \in 1..Len(events) :
          (blocklist_enabled /\ events[i].addr \in blocklist_devices)
          => ~events[i].called /\ events[i].outcome = "none"
    /\ \A m \in 1..Len(tx_log) :
          tx_log[m].kind = "event"
          => ~(blocklist_enabled /\ tx_log[m].addr \in blocklist_devices)

\* a detection of a blocklisted address made while connected, dropped, and a
\* detection of another address published
C7_Witness ==
    /\ blocklist_enabled
    /\ \E i, j \in 1..Len(events) :
          /\ events[i].addr \in blocklist_devices
          /\ events[i].conn /\ ~events[i].called
          /\ events[j].called /\ events[j].ret
    /\ messages_failed = 0

\* C8: publish_advertisement called while not connected returns false, adds
\* one to the failure counter, hands nothing to the transport and leaves the
\* connected flag and the sent counter unchanged.
C8_NotConnected ==
    [][(Detected /\ Last(events').called /\ ~connected)
       => /\ Last(events').ret = FALSE
          /\ messages_failed' = messages_failed + 1
          /\ tx_log' = tx_log
          /\ connected' = connected
          /\ messages_sent' = messages_sent
          /\ acked' = acked]_vars

\* a publish refused after the broker link went down
C8_Witness ==
    /\ Len(events) = 2
    /\ events[1].called /\ events[1].conn /\ events[1].ret
    /\ events[2].called /\ ~events[2].conn /\ ~events[2].ret
    /\ messages_failed = 1
    /\ Len(tx_log) = 1

\* C9 as stated: every publish_advertisement call made while connected
\* returns true.
C9_Original ==
    \A i \in 1..Len(events) :
       (events[i].called /\ events[i].conn) => events[i].ret = TRUE

\* the messages of detection i handed to the transport
TxOf(i) == {m \in 1..Len(tx_log) : tx_log[m].kind = "event" /\ tx_log[m].ev = i}

\* C9 (state part): a call made while connected hands the event to the
\* transport once and returns true exactly when the transport accepts it;
\* the sent counter is the number of acknowledgements, each of an accepted
\* message.
C9_Accepted ==
    /\ \A i \in 1..Len(events) :
          (events[i].called /\ events[i].conn)
          => /\ Cardinality(TxOf(i)) = 1
             /\ \A m \in TxOf(i) : tx_log[m].outcome = events[i].outcome
             /\ events[i].ret = (events[i].outcome = "ok")
    /\ messages_sent = Cardinality(acked)
    /\ \A m \in acked : m \in 1..Len(tx_log) /\ tx_log[m].outcome = "ok"

\* C9 (step part): each acknowledgement adds exactly one to the sent counter.
C9_AckStep ==
    acked' # acked
    => /\ Cardinality(acked' \ acked) = 1
       /\ acked \subseteq acked'
       /\ messages_sent' = messages_sent + 1

\* C9: publish_advertisement called while connected returns true exactly when
\* the transport accepts the send, and the sent counter is incremented by one
\* when the delivery loop acknowledges the message.
C9_ConnectedPublish == []C9_Accepted /\ [][C9_AckStep]_vars

\* an event accepted while connected and then acknowledged
C9_Witness ==
    \E i \in 1..Len(events) :
       /\ events[i].called /\ events[i].conn /\ events[i].ret
       /\ TxOf(i) \subseteq acked
       /\ messages_sent = 1

\* C10 (state part): every event the transport was given was passed to
\* publish_advertisement while connected.
C10_OnlyConnected ==
    \A m \in 1..Len(tx_log) :
       tx_log[m].kind = "event"
       => /\ tx_log[m].ev \in 1..Len(events)
          /\ events[tx_log[m].ev].called
          /\ events[tx_log[m].ev].conn
          /\ events[tx_log[m].ev].addr = tx_log[m].addr

\* C10 (step part): an event is handed to the transport only in the step that
\* handles its detection, never later.
C10_NoRedelivery ==
    \A m \in 1..Len(tx_log') :
       (m > Len(tx_log) /\ tx_log'[m].kind = "event")
       => /\ Detected
          /\ tx_log'[m].ev = Len(events')
          /\ connected

\* C10: an advertisement whose publish failed because the link was down is
\* never handed to the transport later; the transport only holds events
\* whose publish call was made while connected.
C10_FireAndForget == []C10_OnlyConnected /\ [][C10_NoRedelivery]_vars

\* an event refused while the link was down, the link up again, and a later
\* event handed to the transport; the refused one was never handed over
C10_Witness ==
    /\ Len(events) = 2
    /\ events[1].called /\ ~events[1].conn
    /\ events[2].called /\ events[2].conn /\ events[2].ret
    /\ connected
    /\ TxOf(1) = {}
    /\ TxOf(2) \subseteq acked

(***************************************************************************)
(* Properties of the Deduplicator, checked under SpecDedup                 *)
(***************************************************************************)
IsSP(e) == e.op = "should_publish"
IsClear(e) == e.op = "clear_old_entries"

\* a call was made in this step; its record is Last(dlog')
DedupCalled == Len(dlog') = Len(dlog) + 1

\* C2: on a fresh Deduplicator two consecutive should_publish(A) calls return
\* (true, false) when the second is less than interval_seconds after the first
\* and (true, true) when it is interval_seconds or more after it.
C2_FreshPair ==
    (/\ Len(dlog) >= 2
     /\ IsSP(dlog[1]) /\ IsSP(dlog[2])
     /\ dlog[1].addr = dlog[2].addr)
    => /\ dlog[1].ret = TRUE
       /\ dlog[2].ret = (dlog[2].t - dlog[1].t >= interval_seconds)

\* the boundary: the second call exactly interval_seconds after the first
C2_Witness ==
    /\ Len(dlog) >= 2
    /\ IsSP(dlog[1]) /\ IsSP(dlog[2])
    /\ dlog[1].addr = dlog[2].addr
    /\ interval_seconds > 0
    /\ dlog[2].t - dlog[1].t = interval_seconds
    /\ dlog[2].ret = TRUE

\* C3: should_publish(A) for an address A with no entry in the table returns
\* true and records an entry for A, whatever other entries the table holds.
C3_FirstSighting ==
    [][\A a \in Addrs :
          (/\ DedupCalled
           /\ IsSP(Last(dlog')) /\ Last(dlog').addr = a
           /\ a \notin DOMAIN last_seen)
          => /\ Last(dlog').ret = TRUE
             /\ a \in DOMAIN last_seen'
             /\ last_seen'[a] = now
             /\ \A b \in Addrs \ {a} :
                  /\ (b \in DOMAIN last_seen') = (b \in DOMAIN last_seen)
                  /\ b \in DOMAIN last_seen => last_seen'[b] = last_seen[b]]_vars

\* a first sighting of an address, made while the table holds another address
C3_Witness ==
    /\ Len(dlog) >= 2
    /\ IsSP(dlog[1]) /\ IsSP(dlog[2])
    /\ dlog[1].addr # dlog[2].addr
    /\ dlog[2].ret = TRUE
    /\ DOMAIN last_seen = Addrs

\* the published sightings of a among the first j-1 calls
Published(a, j) ==
    {i \in 1..(j-1) : IsSP(dlog[i]) /\ dlog[i].addr = a /\ dlog[i].ret}

\* a sweep between calls i and j removed a's entry
SweptBetween(a, i, j) ==
    \E k \in (i+1)..(j-1) : IsClear(dlog[k]) /\ a \in dlog[k].removed

\* the last published sighting of a before call j
LastPublished(a, j) ==
    CHOOSE i \in Published(a, j) : \A k \in Published(a, j) : k <= i

\* C4 (state part): without a sweep in between, two published sightings of A
\* are at least interval_seconds apart, and a sighting at or after
\* lastPublished + interval_seconds publishes, however many sightings were
\* dropped in between.
C4_Gap ==
    \A a \in Addrs : \A j \in 1..Len(dlog) :
       (/\ IsSP(dlog[j]) /\ dlog[j].addr = a
        /\ Published(a, j) # {}
        /\ ~SweptBetween(a, LastPublished(a, j), j))
       => dlog[j].ret = (dlog[j].t - dlog[LastPublished(a, j)].t >= interval_seconds)

\* C4 (step part): a should_publish(A) that returns false leaves the table,
\* and so A's recorded time, unchanged.
C4_DropStep ==
    (DedupCalled /\ IsSP(Last(dlog')) /\ Last(dlog').ret = FALSE)
    => last_seen' = last_seen

\* C4: a dropped repeat sighting leaves the recorded time unchanged, so the
\* interval is measured from the last published sighting.
C4_MeasuredFromPublished == [][C4_DropStep]_vars /\ []C4_Gap

\* a publish, a drop, and a publish less than interval_seconds after the drop
C4_Witness ==
    /\ Len(dlog) >= 3
    /\ \A i \in 1..3 : IsSP(dlog[i]) /\ dlog[i].addr = dlog[1].addr
    /\ dlog[1].ret /\ ~dlog[2].ret /\ dlog[3].ret
    /\ dlog[3].t - dlog[2].t < interval_seconds
    /\ last_seen[dlog[1].addr] = dlog[3].t

\* the table after the first k calls when the should_publish calls for
\* addresses other than a are left out
RECURSIVE TableWithout(_, _)
TableWithout(a, k) ==
    IF k = 0
    THEN <<>>
    ELSE LET e == dlog[k]
             T == TableWithout(a, k - 1)
         IN IF IsSP(e)
            THEN IF e.addr = a
                 THEN ShouldPublishTable(T, a, e.t, interval_seconds)
                 ELSE T
            ELSE DictRemove(T, OldKeys(T, e.t, e.max_age))

\* C5: the results returned for A, and A's entry, are those of the run in
\* which the calls for the other addresses were not made.
C5_PerAddress ==
    \A a \in Addrs :
       /\ \A k \in 1..Len(dlog) :
             (IsSP(dlog[k]) /\ dlog[k].addr = a)
             => dlog[k].ret = ShouldPublishResult(TableWithout(a, k - 1), a,
                                                  dlog[k].t, interval_seconds)
       /\ (a \in DOMAIN last_seen) = (a \in DOMAIN TableWithout(a, Len(dlog)))
       /\ a \in DOMAIN last_seen => last_seen[a] = TableWithout(a, Len(dlog))[a]

\* calls for two addresses interleaved: A, B, then A again, dropped
C5_Witness ==
    /\ Len(dlog) >= 3
    /\ \A i \in 1..3 : IsSP(dlog[i])
    /\ dlog[1].addr # dlog[2].addr
    /\ dlog[3].addr = dlog[1].addr
    /\ dlog[2].t > dlog[1].t
    /\ dlog[1].ret /\ dlog[2].ret /\ ~dlog[3].ret

\* the entries a sweep with max_age at the current time has to remove
TooOld(max_age) ==
    {a \in DOMAIN last_seen : now - last_seen[a] > max_age}

\* C6 (step part): clear_old_entries(max_age) removes exactly the entries
\* older than max_age, leaves the others and their times, and returns the
\* number removed.
C6_SweepStep ==
    (DedupCalled /\ IsClear(Last(dlog')))
    => LET e == Last(dlog')
       IN /\ DOMAIN last_seen' = (DOMAIN last_seen) \ TooOld(e.max_age)
          /\ \A a \in DOMAIN last_seen' : last_seen'[a] = last_seen[a]
          /\ e.count = Cardinality(TooOld(e.max_age))
          /\ e.removed = TooOld(e.max_age)

\* C6 (state part): the next should_publish of a removed address returns true
C6_RemovedIsUnseen ==
    \A k \in 1..Len(dlog) : \A j \in 1..Len(dlog) :
       (/\ k < j
        /\ IsClear(dlog[k])
        /\ IsSP(dlog[j]) /\ dlog[j].addr \in dlog[k].removed
        /\ \A i \in (k+1)..(j-1) : ~(IsSP(dlog[i]) /\ dlog[i].addr = dlog[j].addr))
       => dlog[j].ret = TRUE

\* C6: clear_old_entries removes exactly the entries whose age is strictly
\* greater than max_age, returns their number, and a removed address is
\* published on its next sighting.
C6_Sweep == [][C6_SweepStep]_vars /\ []C6_RemovedIsUnseen

\* a sweep that removes one entry and keeps one whose age equals max_age; the
\* removed address is then published although interval_seconds has not passed
C6_Witness ==
    /\ Len(dlog) >= 4
    /\ IsSP(dlog[1]) /\ IsSP(dlog[2]) /\ IsClear(dlog[3]) /\ IsSP(dlog[4])
    /\ dlog[3].count = 1
    /\ dlog[2].addr \notin dlog[3].removed
    /\ dlog[3].t - dlog[2].t = dlog[3].max_age
    /\ dlog[4].addr \in dlog[3].removed
    /\ dlog[4].t - dlog[1].t < interval_seconds
    /\ dlog[4].ret = TRUE

(***************************************************************************)
(* Properties of the publisher's counters, flag and status messages        *)
(***************************************************************************)

\* publish_advertisement, publish_status, connect() or disconnect() was called
\* in this step
StatusCalled == Len(status_log') = Len(status_log) + 1
ConnectCalled == loop = "none" /\ loop' # "none"
DisconnectCalled == Len(disc_log') = Len(disc_log) + 1

\* C11: the counters reported in status snapshots and publisher statistics
\* (messages sent, messages failed, devices seen) never decrease, whatever
\* disconnect and connect notifications arrive.
C11_CountersNeverDecrease ==
    [][/\ Statistics'.messages_sent >= Statistics.messages_sent
       /\ Statistics'.messages_failed >= Statistics.messages_failed
       /\ StatusSnapshot'.messages_sent >= StatusSnapshot.messages_sent
       /\ StatusSnapshot'.messages_dropped >= StatusSnapshot.messages_dropped
       /\ StatusSnapshot'.devices_seen >= StatusSnapshot.devices_seen
       /\ devices_seen \subseteq devices_seen']_vars

\* the link was lost and came back, and every counter kept what it had counted
\* before
C11_Witness ==
    /\ Len(events) = 2
    /\ events[1].conn /\ events[1].ret
    /\ ~events[2].conn
    /\ connected
    /\ Statistics.messages_sent = 1
    /\ Statistics.messages_failed = 1
    /\ StatusSnapshot.messages_sent = 1
    /\ StatusSnapshot.devices_seen >= 1

\* C16 as stated: no call of publish_advertisement, publish_status,
\* connect() or disconnect() changes the connected flag.
C16_Original ==
    [][((Detected /\ Last(events').called) \/ StatusCalled \/ ConnectCalled
        \/ DisconnectCalled)
       => connected' = connected]_vars

\* C16: the connected flag is written by the connect and disconnect
\* notification handlers and by disconnect(), which clears it once the
\* session is closed; no call of publish_advertisement, publish_status
\* (get_statistics included) or connect(), whatever its outcome, changes it.
C16_FlagWriters ==
    [][/\ ((Detected /\ Last(events').called) \/ StatusCalled \/ ConnectCalled)
          => connected' = connected
       /\ DisconnectCalled
          => connected' = (connected /\ Last(disc_log').outcome # "ok")
       /\ connected' # connected
          => \/ \E rc \in {0, 5} : on_connect(rc)
             \/ on_disconnect
             \/ disconnect]_vars

\* an event publish was rejected and a status publish made while connected,
\* the flag stayed up, and disconnect() then cleared it
C16_Witness ==
    /\ Len(events) = 1 /\ events[1].conn /\ events[1].outcome = "rejected"
    /\ Len(status_log) = 1 /\ status_log[1].conn
    /\ Len(disc_log) = 1 /\ disc_log[1].conn /\ disc_log[1].outcome = "ok"
    /\ ~connected

\* C17: publish_status returns false when the publisher is not connected
\* (nothing is handed to the transport) or the send is rejected or raises,
\* true when the send is accepted, and never changes the failure counter;
\* every message it sends goes to the status topic with the retain flag,
\* every event message to the event topic without it.
C17_StatusContract ==
    /\ [](/\ StatusTopic # EventTopic
          /\ \A i \in 1..Len(status_log) :
                /\ status_log[i].ret = (status_log[i].outcome = "ok")
                /\ ~status_log[i].conn => status_log[i].outcome = "none"
          /\ \A m \in 1..Len(tx_log) :
                /\ tx_log[m].kind = "status"
                   => tx_log[m].topic = StatusTopic /\ tx_log[m].retain
                /\ tx_log[m].kind = "event"
                   => tx_log[m].topic = EventTopic /\ ~tx_log[m].retain)
    /\ [][StatusCalled
          => /\ messages_failed' = messages_failed
             /\ Len(tx_log') = Len(tx_log)
                   + (IF Last(status_log').outcome = "none" THEN 0 ELSE 1)
             /\ Len(tx_log') > Len(tx_log) => Last(tx_log').kind = "status"]_vars

\* a status publish the transport rejected, after an event publish it
\* accepted: the failure counter is still 0
C17_Witness ==
    /\ Len(status_log) = 1
    /\ status_log[1].conn /\ status_log[1].outcome = "rejected"
    /\ ~status_log[1].ret
    /\ Len(tx_log) = 2
    /\ tx_log[1].kind = "event" /\ tx_log[1].outcome = "ok"
    /\ tx_log[2].kind = "status"
    /\ messages_failed = 0

(***************************************************************************)
(* BLEScanner: start, stop and the scan loop                               *)
(*                                                                         *)
(* The coroutines run on one event loop: a step is what a coroutine does   *)
(* between two awaits. The callers of start() and stop() await each call   *)
(* before they make the next one, as ScannerApp does.                      *)
(***************************************************************************)

\* ble_scanner.py:168-179, the classes of exception _scan_loop tells apart
ErrorKinds == {"not_ready", "permission", "other"}

\* mutant of WaitTime: every backoff lasts 5 seconds
WaitTimeConstant(n) == BackoffStep

\* ble_scanner.py:190   wait_time = min(5 * retry_count, 30)
WaitTime(n) ==
    IF BackoffStep * n < BackoffCap THEN BackoffStep * n ELSE BackoffCap

\* mutant of GivesUp: one more attempt is made before the loop gives up
GivesUpLate(n) == n > MaxRetries

\* ble_scanner.py:181   if retry_count >= max_retries
GivesUp(n) == n >= MaxRetries

\* mutant of RetryCountAfterStart: a successful start keeps the count
RetryCountAfterStartKept(n) == n

\* ble_scanner.py:141   retry_count = 0  # Reset on success
RetryCountAfterStart(n) == 0

\* the scan task exists and has not ended
TaskAlive == scan_pc \in {"pending", "starting", "scanning", "retrying"}

\* the state of the capture machine
ScanState ==
    IF gave_up THEN "Failed"
    ELSE IF ~running THEN "Idle"
    ELSE IF scan_pc = "scanning" THEN "Scanning"
    ELSE IF scan_pc = "retrying" THEN "Retrying"
    ELSE "Starting"

\* the cancellation of the stop() in progress is pending on the current scan
\* task (ble_scanner.py:116-119): _scan_task is still the task stop() cancelled
CancelPending == stop_pc = "await_task" /\ old_task = "none"

\* ble_scanner.py:101: what becomes of the task _scan_task referred to when
\* start() assigns a new one. A task that has ended, or none, leaves no
\* trace, unless a stop() is waiting for it.
ReplacedTask ==
    IF TaskAlive
    THEN IF CancelPending THEN "cancelling" ELSE "active"
    ELSE IF CancelPending THEN "ended" ELSE old_task

\* mutant of StartIsNoop: start() does not look at the running flag
StartIsNoopNever(r) == FALSE

\* ble_scanner.py:88-90   if self._running: ...; return
StartIsNoop(r) == r

\* BLEScanner.start (ble_scanner.py:86-106); `ok`: the BleakScanner
\* constructor returns (otherwise it raises, and so does start)
ScanStart(ok) ==
    /\ start_calls' = start_calls + 1
    /\ IF StartIsNoop(running) \/ ~ok
       THEN UNCHANGED <<running, receiver, scan_pc, retry_count, last_error,
                        gave_up, attempts, waits, path, polls, old_task>>
       ELSE /\ receiver' = "created"
            /\ old_task' = ReplacedTask
            /\ running' = TRUE
            /\ scan_pc' = "pending"
            /\ retry_count' = 0
            /\ last_error' = "none"
            /\ gave_up' = FALSE
            /\ attempts' = 0
            /\ waits' = <<>>
            /\ path' = <<ScanState, "Starting">>
            /\ polls' = 0
    /\ UNCHANGED <<stop_pc, stop_calls>>

\* mutant of StopIsNoop: stop() always goes through its steps
StopIsNoopNever(r) == FALSE

\* ble_scanner.py:110   if not self._running: return
StopIsNoop(r) == ~r

\* BLEScanner.stop up to `await self._scan_task` (ble_scanner.py:108-121):
\* nothing when not running, else the flag is cleared and the scan task
\* cancelled
ScanStopBegin ==
    /\ stop_calls' = stop_calls + 1
    /\ IF StopIsNoop(running)
       THEN UNCHANGED <<running, stop_pc, path>>
       ELSE /\ running' = FALSE
            /\ stop_pc' = "await_task"
            /\ path' = path
    /\ UNCHANGED <<receiver, scan_pc, retry_count, last_error, gave_up,
                   attempts, waits, polls, start_calls, old_task>>

\* BLEScanner.stop from the return of `await self._scan_task`
\* (ble_scanner.py:121-129): the receiver is asked to stop; `outcome` "raised"
\* is an exception of _scanner.stop(), which is logged
ScanStopEnd(outcome) ==
    /\ stop_pc = "await_task"
    /\ IF old_task = "none" THEN ~TaskAlive ELSE old_task = "ended"
    /\ stop_pc' = "none"
    /\ old_task' = "none"
    /\ receiver' = IF outcome = "ok" THEN "stopped" ELSE receiver
    /\ path' = IF old_task = "none" THEN Append(path, "Idle") ELSE path
    /\ UNCHANGED <<running, scan_pc, retry_count, last_error, gave_up,
                   attempts, waits, polls, start_calls, stop_calls>>

\* a caller awaits BLEScanner.start()
start_call(ok) ==
    /\ stop_pc = "none"
    /\ start_calls < MaxStartCalls
    /\ ScanStart(ok)
    /\ UNCHANGED <<dedupVars, configVars, pubVars, appVars, lifeVars>>

\* a caller awaits BLEScanner.stop()
stop_call ==
    /\ stop_pc = "none"
    /\ stop_calls < MaxStopCalls
    /\ ScanStopBegin
    /\ UNCHANGED <<dedupVars, configVars, pubVars, appVars, lifeVars>>

\* stop() resumes after the scan task has ended
stop_return(outcome) ==
    /\ ScanStopEnd(outcome)
    /\ UNCHANGED <<dedupVars, configVars, pubVars, appVars, lifeVars>>

\* _scan_loop runs for the first time (ble_scanner.py:131-140): it calls
\* _scanner.start()
task_run ==
    /\ scan_pc = "pending"
    /\ ~CancelPending
    /\ scan_pc' = "starting"
    /\ retry_count' = 0
    /\ attempts' = attempts + 1
    /\ UNCHANGED <<running, receiver, last_error, stop_pc, gave_up, waits, path,
                   polls, start_calls, stop_calls, old_task>>
    /\ UNCHANGED <<dedupVars, configVars, pubVars, appVars, lifeVars>>

\* _scanner.start() returns (ble_scanner.py:140-152): the count is reset and
\* the loop waits, 5 s at a time, for the scanner to be stopped
start_succeeded ==
    /\ scan_pc = "starting"
    /\ ~CancelPending
    /\ receiver' = "started"
    /\ retry_count' = RetryCountAfterStart(retry_count)
    /\ scan_pc' = "scanning"
    /\ path' = Append(path, "Scanning")
    /\ UNCHANGED <<running, last_error, stop_pc, gave_up, attempts, waits,
                   polls, start_calls, stop_calls, old_task>>
    /\ UNCHANGED <<dedupVars, configVars, pubVars, appVars, lifeVars>>

\* _scanner.start() raises an exception of class `kind`
\* (ble_scanner.py:163-192): the loop gives up or backs off
start_failed(kind) ==
    /\ scan_pc = "starting"
    /\ ~CancelPending
    /\ LET n == retry_count + 1
       IN /\ retry_count' = n
          /\ last_error' = kind
          /\ IF GivesUp(n)
             THEN /\ running' = FALSE
                  /\ gave_up' = TRUE
                  /\ scan_pc' = "done"
                  /\ waits' = waits
                  /\ path' = Append(path, "Failed")
             ELSE /\ scan_pc' = "retrying"
                  /\ waits' = Append(waits, WaitTime(n))
                  /\ path' = Append(path, "Retrying")
                  /\ UNCHANGED <<running, gave_up>>
    /\ UNCHANGED <<receiver, stop_pc, attempts, polls, start_calls, stop_calls, old_task>>
    /\ UNCHANGED <<dedupVars, configVars, pubVars, appVars, lifeVars>>

\* asyncio.sleep(wait_time) returns (ble_scanner.py:192, 136-140): the loop
\* calls _scanner.start() again
backoff_elapsed ==
    /\ scan_pc = "retrying"
    /\ ~CancelPending
    /\ IF running
       THEN /\ scan_pc' = "starting"
            /\ attempts' = attempts + 1
            /\ path' = Append(path, "Starting")
       ELSE /\ scan_pc' = "done"
            /\ UNCHANGED <<attempts, path>>
    /\ UNCHANGED <<running, receiver, retry_count, last_error, stop_pc, gave_up,
                   waits, polls, start_calls, stop_calls, old_task>>
    /\ UNCHANGED <<dedupVars, configVars, pubVars, appVars, lifeVars>>

\* mutant of AfterPoll: the timeout of the wait ends the scan loop
AfterPollExits(r) == "done"

\* ble_scanner.py:152-157: asyncio.TimeoutError is answered by `continue`,
\* and `while self._running` goes into the next 5 s wait for as long as the
\* flag is set
AfterPoll(r) == IF r THEN "scanning" ELSE "done"

\* the 5 s wait times out while scanning (ble_scanner.py:152-157): the loop
\* looks at _running and waits again
poll_timeout ==
    /\ scan_pc = "scanning"
    /\ ~CancelPending
    /\ polls < MaxPolls
    /\ polls' = polls + 1
    /\ scan_pc' = AfterPoll(running)
    /\ UNCHANGED <<running, receiver, retry_count, last_error, stop_pc,
                   gave_up, attempts, waits, path, start_calls, stop_calls, old_task>>
    /\ UNCHANGED <<dedupVars, configVars, pubVars, appVars, lifeVars>>

\* the cancellation stop() requested reaches the scan task: inside the try
\* block it is caught (ble_scanner.py:161-162); in the backoff sleep, or
\* before the task ever ran, it ends the task as cancelled
task_cancelled ==
    /\ CancelPending
    /\ TaskAlive
    /\ scan_pc' = IF scan_pc \in {"starting", "scanning"} THEN "done" ELSE "cancelled"
    /\ UNCHANGED <<running, receiver, retry_count, last_error, stop_pc, gave_up,
                   attempts, waits, path, polls, start_calls, stop_calls, old_task>>
    /\ UNCHANGED <<dedupVars, configVars, pubVars, appVars, lifeVars>>

\* a caller awaits BLEScanner.start() while a stop() is suspended at
\* `await self._scan_task` (ble_scanner.py:119)
start_call_in_stop(ok) ==
    /\ stop_pc = "await_task"
    /\ start_calls < MaxStartCalls
    /\ ScanStart(ok)
    /\ UNCHANGED <<dedupVars, configVars, pubVars, appVars, lifeVars>>

\* the cancellation reaches the task stop() awaits after start() has replaced
\* it in _scan_task: the task ends at the await it stands at, whatever the
\* running flag has become (ble_scanner.py:161-162)
old_task_cancelled ==
    /\ old_task = "cancelling"
    /\ old_task' = "ended"
    /\ UNCHANGED <<running, receiver, scan_pc, retry_count, last_error, stop_pc,
                   gave_up, attempts, waits, path, polls, start_calls,
                   stop_calls>>
    /\ UNCHANGED <<dedupVars, configVars, pubVars, appVars, lifeVars>>

\* the steps of the scan task
ScanTaskNext ==
    \/ task_run
    \/ start_succeeded
    \/ \E kind \in ErrorKinds : start_failed(kind)
    \/ backoff_elapsed
    \/ poll_timeout
    \/ task_cancelled

NextScan ==
    \/ \E ok \in BOOLEAN : start_call(ok)
    \/ stop_call
    \/ \E outcome \in {"ok", "raised"} : stop_return(outcome)
    \/ ScanTaskNext

\* the scanner, its callers starting and stopping it as they like
SpecScan == Init /\ [][NextScan]_vars

\* the scanner with callers that do not wait for a stop() to return before
\* they call start()
NextScanAny ==
    \/ NextScan
    \/ \E ok \in BOOLEAN : start_call_in_stop(ok)
    \/ old_task_cancelled

SpecScanAny == Init /\ [][NextScanAny]_vars

(***************************************************************************)
(* Properties of the scanner                                               *)
(***************************************************************************)

\* the scan machine entered state `st` in this step
Entered(st) == Len(path') = Len(path) + 1 /\ Last(path') = st

\* BLEScanner.start or BLEScanner.stop was called in this step
StartCalled == start_calls' = start_calls + 1
StopCalled == stop_calls' = stop_calls + 1
\* stop() returned in this step from its wait for the scan task
StopReturned == stop_pc = "await_task" /\ stop_pc' = "none"

\* the states a scan task goes through when its first `k` starts fail and
\* the next succeeds
RECURSIVE RetryPath(_)
RetryPath(k) ==
    IF k = 0 THEN <<"Starting", "Scanning">>
    ELSE <<"Starting", "Retrying">> \o RetryPath(k - 1)

\* C12: when the receiver start fails 3 times and then succeeds, the scan
\* machine goes Idle -> Starting -> Retrying three times, with waits of 5, 10
\* and 15 seconds in that order, -> Starting -> Scanning; the successful start
\* sets the attempt counter to 0, and a failure met with the counter at 0 is
\* counted as the first (wait 5 s).
C12_ThreeFailuresThenSuccess ==
    /\ []((ScanState = "Scanning" /\ Len(waits) = 3)
          => /\ SubSeq(path, 2, Len(path)) = RetryPath(3)
             /\ path[1] \in {"Idle", "Failed"}
             /\ waits = <<5, 10, 15>>
             /\ attempts = 4
             /\ retry_count = 0)
    /\ []((start_calls = 1 /\ ScanState # "Idle") => path[1] = "Idle")
    /\ [][/\ Entered("Scanning") => retry_count' = 0
          /\ (Entered("Retrying") /\ retry_count = 0)
             => retry_count' = 1 /\ Last(waits') = 5]_vars

\* three failed starts, three waits, and the receiver scanning with the count
\* back at 0
C12_Witness ==
    /\ ScanState = "Scanning"
    /\ path = <<"Idle">> \o RetryPath(3)
    /\ waits = <<5, 10, 15>>
    /\ retry_count = 0
    /\ receiver = "started"

\* C13: when every receiver start fails the scan loop gives up on the 10th
\* consecutive failure: it has then made 10 start attempts (so never a 12th),
\* the number of attempts of a task never exceeds 10, and in the Failed state
\* no start attempt is made and nothing but a new start() call leaves it.
C13_GivesUp ==
    /\ [](/\ attempts <= MaxRetries
          /\ attempts < 12
          /\ retry_count <= MaxRetries
          /\ gave_up <=> (retry_count = MaxRetries /\ ~TaskAlive /\ scan_pc = "done")
          /\ gave_up => /\ attempts = MaxRetries
                         /\ Len(waits) = MaxRetries - 1
                         /\ ~running
                         /\ ScanState = "Failed")
    /\ [][gave_up
          => \/ StartCalled
             \/ /\ gave_up' /\ attempts' = attempts /\ scan_pc' = scan_pc
                /\ running' = running /\ path' = path]_vars
    /\ [][Entered("Failed") => retry_count = MaxRetries - 1 /\ scan_pc = "starting"]_vars

\* ten starts have failed: the machine is Failed after waits of
\* 5, 10, 15, 20, 25, 30, 30, 30, 30 seconds
C13_Witness ==
    /\ gave_up
    /\ attempts = 10
    /\ waits = <<5, 10, 15, 20, 25, 30, 30, 30, 30>>
    /\ Last(path) = "Failed"
    /\ stop_calls = 0

\* the variables of the scanner stop() may write
scanState == <<running, receiver, scan_pc, retry_count, last_error, stop_pc,
               gave_up, attempts, waits, path, polls>>

\* C15: stop() called when the machine is Idle or Failed changes nothing (so
\* a second stop() is a no-op); called in Starting, Scanning or Retrying it
\* clears the running flag and cancels the scan task, whose next step is its
\* end, then asks the receiver to stop and returns, whether or not the
\* receiver stop raised, with the machine Idle; no receiver start is
\* attempted once stop() has been called, nor after it has returned.
C15_Stop ==
    /\ []((stop_pc = "none" /\ ~running) => ~TaskAlive)
    /\ [][/\ (StopCalled /\ ~running) => UNCHANGED scanState
          /\ (StopCalled /\ running)
             => /\ ~running' /\ stop_pc' = "await_task"
                /\ ScanState \in {"Starting", "Scanning", "Retrying"}
          /\ (stop_pc = "await_task" /\ scan_pc' # scan_pc) => ~TaskAlive'
          /\ StopReturned
             => /\ ~TaskAlive /\ ~running'
                /\ ScanState' = "Idle" /\ Last(path') = "Idle"
                /\ receiver' \in {"stopped", receiver}
          /\ attempts' > attempts => running /\ stop_pc = "none"]_vars

\* stop() called during a backoff wait, the receiver stop raising, and a
\* second stop() that did nothing
C15_Witness ==
    /\ stop_calls = 2 /\ start_calls = 1
    /\ stop_pc = "none" /\ ~running
    /\ scan_pc = "cancelled"
    /\ path = <<"Idle", "Starting", "Retrying", "Idle">>
    /\ receiver = "created"

(***************************************************************************)
(* ScannerApp: run, the heartbeat task and shutdown                        *)
(***************************************************************************)

\* mutant of ShutdownSteps: the scanner is stopped before the heartbeat
ShutdownStepsCaptureFirst == <<"sd_scanner", "sd_heartbeat", "sd_publisher">>

\* app.py:93-107, the steps of ScannerApp.shutdown in the order of the code:
\* "Stop heartbeat", "Stop BLE scanner", "Disconnect MQTT"
ShutdownSteps == <<"sd_heartbeat", "sd_scanner", "sd_publisher">>

\* the step of shutdown() that follows `step`
StepAfter(step) ==
    LET i == CHOOSE k \in 1..Len(ShutdownSteps) : ShutdownSteps[k] = step
    IN IF i < Len(ShutdownSteps) THEN ShutdownSteps[i + 1] ELSE "complete"

\* mutant of HeartbeatAwaited: shutdown() does not wait for the heartbeat
\* task it cancelled
HeartbeatAwaitedNot(hb) == TRUE

\* app.py:96-99   await self._heartbeat_task returns once the task has ended
HeartbeatAwaited(hb) == hb = "done"

\* app.py:243-247: main exits with 1 when run() raised, else returns
ExitCode(exc) == IF exc THEN "nonzero" ELSE "zero"

\* app.py:101   if self.ble_scanner: run() has created the BLEScanner, which
\* it does just before it calls start()
AppHasScanner == start_calls > 0

\* ScannerApp.run up to `await asyncio.sleep(2)` (app.py:42-62); `ok`:
\* MQTTPublisher.connect returns (otherwise it raises, and run() goes to its
\* finally clause)
run_connect(ok) ==
    /\ run_pc = "init"
    /\ loop = "none"
    /\ IF ok
       THEN /\ loop' = "running"
            /\ run_pc' = "sleep"
            /\ run_exc' = run_exc
       ELSE /\ loop' = "failed"
            /\ run_pc' = ShutdownSteps[1]
            /\ run_exc' = TRUE
    /\ UNCHANGED <<dedupVars, configVars, scanVars, appVars, connected,
                   messages_sent, messages_failed, tx_log, acked, disc_log,
                   shutdown_requested, hb_pc, order, exit_code, beats>>

\* ScannerApp.run from the end of the sleep to `await
\* self._shutdown_event.wait()` (app.py:64-79): the BLEScanner is created and
\* started and, if enabled, the heartbeat task created; `ok`: start() returns
run_start(ok) ==
    /\ run_pc = "sleep"
    /\ ScanStart(ok)
    /\ IF ok
       THEN /\ hb_pc' = IF hb_enabled THEN "sleeping" ELSE "none"
            /\ run_pc' = "waiting"
            /\ run_exc' = run_exc
       ELSE /\ hb_pc' = hb_pc
            /\ run_pc' = ShutdownSteps[1]
            /\ run_exc' = TRUE
    /\ UNCHANGED <<dedupVars, configVars, pubVars, appVars,
                   shutdown_requested, order, exit_code, beats>>

\* ScannerApp.request_shutdown (app.py:191-194), called by the signal handler
request_shutdown ==
    /\ ~shutdown_requested
    /\ exit_code = "none"
    /\ shutdown_requested' = TRUE
    /\ UNCHANGED <<dedupVars, configVars, pubVars, appVars, scanVars,
                   run_pc, run_exc, hb_pc, order, exit_code, beats>>

\* `await self._shutdown_event.wait()` returns (app.py:79) and run() enters
\* its finally clause
run_wake ==
    /\ run_pc = "waiting"
    /\ shutdown_requested
    /\ run_pc' = ShutdownSteps[1]
    /\ UNCHANGED <<dedupVars, configVars, pubVars, appVars, scanVars,
                   run_exc, shutdown_requested, hb_pc, order, exit_code, beats>>

\* mutant of HbAfterIteration: an iteration that published nothing ends the
\* loop
HbAfterIterationStopOnFailure(outcome) ==
    IF outcome = "ok" THEN "sleeping" ELSE "done"

\* app.py:146-153: where _heartbeat_loop stands after an iteration with the
\* given outcome: `except Exception` logs and the while loop goes on; only
\* CancelledError breaks
HbAfterIteration(outcome) == "sleeping"

\* how an iteration of _heartbeat_loop ends: with an exception raised while
\* _publish_status builds the snapshot (app.py:160-187), which reaches
\* `except Exception` (152-153), or with one of the outcomes of publish_status
BeatOutcomes(build_raises, conn) ==
    IF build_raises THEN {"build_raised"} ELSE SendOutcomes(conn)

\* an iteration of _heartbeat_loop (app.py:146-153): the sleep ends and
\* _publish_status runs; build_raises: building the snapshot raises
hb_tick(build_raises) ==
    /\ hb_pc = "sleeping"
    /\ exit_code = "none"
    /\ Len(beats) < MaxBeats
    /\ \E outcome \in BeatOutcomes(build_raises, connected) :
          /\ IF outcome = "build_raised"
             THEN UNCHANGED <<tx_log, connected, messages_failed, status_log>>
             ELSE StatusPublish(outcome)
          /\ beats' = Append(beats, outcome)
          /\ hb_pc' = HbAfterIteration(outcome)
    /\ UNCHANGED <<dedupVars, configVars, scanVars, run_pc, run_exc,
                   shutdown_requested, order, exit_code, loop,
                   messages_sent, acked, disc_log, devices_seen,
                   messages_published, status_pending, events, sink_log>>

\* the cancellation reaches the heartbeat task in its sleep (app.py:150-151)
hb_cancelled ==
    /\ hb_pc = "cancelling"
    /\ hb_pc' = "done"
    /\ order' = Append(order, "heartbeat ended")
    /\ UNCHANGED <<dedupVars, configVars, pubVars, appVars, scanVars,
                   run_pc, run_exc, shutdown_requested, exit_code, beats>>

\* shutdown(), "Stop heartbeat" (app.py:93-95): the task, if there is one, is
\* cancelled
sd_heartbeat ==
    /\ run_pc = "sd_heartbeat"
    /\ IF hb_pc = "sleeping"
       THEN /\ hb_pc' = "cancelling"
            /\ order' = Append(order, "heartbeat cancelled")
            /\ run_pc' = "sd_heartbeat_wait"
       ELSE /\ run_pc' = StepAfter("sd_heartbeat")
            /\ UNCHANGED <<hb_pc, order>>
    /\ UNCHANGED <<dedupVars, configVars, pubVars, appVars, scanVars,
                   run_exc, shutdown_requested, exit_code, beats>>

\* shutdown(), `await self._heartbeat_task` returns (app.py:96-99)
sd_heartbeat_done ==
    /\ run_pc = "sd_heartbeat_wait"
    /\ HeartbeatAwaited(hb_pc)
    /\ run_pc' = StepAfter("sd_heartbeat")
    /\ UNCHANGED <<dedupVars, configVars, pubVars, appVars, scanVars,
                   run_exc, shutdown_requested, hb_pc, order, exit_code, beats>>

\* shutdown(), "Stop BLE scanner" (app.py:101-103): BLEScanner.stop is
\* called, and returns at once when the scanner is not running
sd_scanner ==
    /\ run_pc = "sd_scanner"
    /\ IF AppHasScanner
       THEN /\ ScanStopBegin
            /\ IF StopIsNoop(running)
               THEN /\ order' = order \o <<"capture stop called", "capture stop returned">>
                    /\ run_pc' = StepAfter("sd_scanner")
               ELSE /\ order' = Append(order, "capture stop called")
                    /\ run_pc' = "sd_scanner_wait"
       ELSE /\ run_pc' = StepAfter("sd_scanner")
            /\ UNCHANGED <<scanVars, order>>
    /\ UNCHANGED <<dedupVars, configVars, pubVars, appVars,
                   run_exc, shutdown_requested, hb_pc, exit_code, beats>>

\* shutdown(), `await self.ble_scanner.stop()` returns (app.py:102)
sd_scanner_done(outcome) ==
    /\ run_pc = "sd_scanner_wait"
    /\ ScanStopEnd(outcome)
    /\ order' = Append(order, "capture stop returned")
    /\ run_pc' = StepAfter("sd_scanner")
    /\ UNCHANGED <<dedupVars, configVars, pubVars, appVars,
                   run_exc, shutdown_requested, hb_pc, exit_code, beats>>

\* shutdown(), "Disconnect MQTT" (app.py:105-107): MQTTPublisher.disconnect
\* is called; an exception of it leaves shutdown() and run()
sd_publisher ==
    /\ run_pc = "sd_publisher"
    /\ \E outcome \in DisconnectOutcomes :
          /\ PubDisconnect(outcome)
          /\ IF outcome = "ok"
             THEN /\ order' = order \o <<"disconnect called", "disconnect returned">>
                  /\ run_pc' = StepAfter("sd_publisher")
                  /\ run_exc' = run_exc
             ELSE /\ order' = order \o <<"disconnect called", "disconnect raised">>
                  /\ run_pc' = "raised"
                  /\ run_exc' = TRUE
    /\ UNCHANGED <<dedupVars, configVars, appVars, scanVars, messages_sent,
                   messages_failed, tx_log, acked,
                   shutdown_requested, hb_pc, exit_code, beats>>

\* shutdown() returns, or is left by an exception, and with it run(); main
\* ends the process (app.py:109, 86-87, 243-247)
process_exit ==
    /\ run_pc \in {"complete", "raised"}
    /\ order' = IF run_pc = "complete"
                THEN Append(order, "shutdown complete") ELSE order
    /\ exit_code' = ExitCode(run_exc)
    /\ run_pc' = "exited"
    /\ UNCHANGED <<dedupVars, configVars, pubVars, appVars, scanVars,
                   run_exc, shutdown_requested, hb_pc, beats>>

\* ScannerApp constructed by main, with the blocklist off
InitLife ==
    /\ now = 0
    /\ interval_seconds = DedupIntervalSeconds
    /\ last_seen = <<>>
    /\ dlog = <<>>
    /\ blocklist_enabled = FALSE
    /\ blocklist_devices = {}
    /\ dedup_enabled = FALSE
    /\ hb_enabled \in BOOLEAN
    /\ ScanInit
    /\ LifeInit
    /\ status_log = <<>>
    /\ sink_log = <<>>
    /\ loop = "none"
    /\ connected = FALSE
    /\ messages_sent = 0
    /\ messages_failed = 0
    /\ tx_log = <<>>
    /\ acked = {}
    /\ disc_log = <<>>
    /\ devices_seen = {}
    /\ messages_published = 0
    /\ status_pending = 0
    /\ events = <<>>

\* the process from main to its exit: run(), the scan task, the heartbeat
\* task, the transport's notifications and shutdown(); tasks run only while
\* the event loop does
NextLife ==
    \/ \E ok \in BOOLEAN : run_connect(ok)
    \/ \E ok \in BOOLEAN : run_start(ok)
    \/ request_shutdown
    \/ run_wake
    \/ /\ Len(beats) < MaxLifeBeats
       /\ StatusRequested < MaxStatus
       /\ hb_tick(FALSE)
    \/ hb_cancelled
    \/ sd_heartbeat
    \/ sd_heartbeat_done
    \/ sd_scanner
    \/ \E outcome \in {"ok", "raised"} : sd_scanner_done(outcome)
    \/ sd_publisher
    \/ process_exit
    \/ exit_code = "none" /\ ScanTaskNext
    \/ \E rc \in {0, 5} : on_connect(rc)
    \/ on_disconnect
    \/ \E mid \in 1..Len(tx_log) : on_publish(mid)
    \/ exit_code = "none" /\ publish_status

SpecLife == InitLife /\ [][NextLife]_vars

\* the heartbeat loop from its creation by run() to the end of shutdown()'s
\* "Stop heartbeat" step, with the broker link going up and down
NextBeat ==
    \/ \E ok \in BOOLEAN : run_connect(ok)
    \/ \E ok \in BOOLEAN : run_start(ok)
    \/ request_shutdown
    \/ run_wake
    \/ \E build_raises \in BOOLEAN : hb_tick(build_raises)
    \/ hb_cancelled
    \/ sd_heartbeat
    \/ sd_heartbeat_done
    \/ \E rc \in {0, 5} : on_connect(rc)
    \/ on_disconnect

SpecBeat == InitLife /\ [][NextBeat]_vars

(***************************************************************************)
(* Properties of the application's life cycle                              *)
(***************************************************************************)

\* the positions of `what` in the record of shutdown()
At(what) == {i \in 1..Len(order) : order[i] = what}

\* every `a` recorded comes before every `b` recorded
Before(a, b) == \A i \in At(a), j \in At(b) : i < j

\* `what` was recorded in this step
Recorded(what) ==
    \E i \in (Len(order) + 1)..Len(order') : order'[i] = what

\* C14: when the scan loop has given up, the failure is fatal to the
\* application: the process does not end with exit code zero.
C14_GiveUpIsFatal ==
    (gave_up /\ exit_code # "none") => exit_code = "nonzero"

\* C18: shutdown() cancels the heartbeat task and waits for it to end, then
\* stops the scanner, then disconnects the publisher: the scanner stop is
\* not called before the cancelled heartbeat task has ended, nor the
\* publisher's disconnect before the scanner stop has returned.
C18_ShutdownOrder ==
    /\ [](/\ Before("heartbeat cancelled", "heartbeat ended")
          /\ Before("heartbeat ended", "capture stop called")
          /\ Before("capture stop called", "capture stop returned")
          /\ Before("capture stop returned", "disconnect called")
          /\ At("capture stop called") # {}
             => Cardinality(At("heartbeat ended"))
                   = Cardinality(At("heartbeat cancelled"))
          /\ At("disconnect called") # {}
             => Cardinality(At("capture stop returned"))
                   = Cardinality(At("capture stop called")))
    /\ [][/\ Recorded("capture stop called") => hb_pc \in {"none", "done"}
          /\ Recorded("disconnect called")
             => /\ hb_pc \in {"none", "done"}
                /\ stop_pc = "none" /\ ~running /\ ~TaskAlive]_vars

\* a shutdown that found the heartbeat task asleep and the receiver scanning
C18_Witness ==
    /\ order = <<"heartbeat cancelled", "heartbeat ended",
                 "capture stop called", "capture stop returned",
                 "disconnect called", "disconnect returned",
                 "shutdown complete">>
    /\ path = <<"Idle", "Starting", "Scanning", "Idle">>
    /\ exit_code = "zero"

\* C19: every step of shutdown() is best effort: shutdown() always runs to
\* completion, whatever fails in the heartbeat cancellation, the scanner stop
\* or the publisher's disconnect.
C19_ShutdownCompletes ==
    run_pc = "exited"
    => /\ Last(order) = "shutdown complete"
       /\ At("disconnect returned") # {}
       /\ loop = "stopped"
       /\ ~connected

\* C20 as stated: the heartbeat is not stopped before the scanner has been
\* stopped.
C20_Original ==
    \A i \in At("heartbeat cancelled") :
       \E j \in At("capture stop returned") : j < i

\* C20: shutdown() stops the heartbeat, then the scanner, then disconnects
\* the publisher: the scanner is not stopped while the heartbeat task is
\* still running, and nothing of shutdown() but its return follows the
\* publisher's disconnect.
C20_HeartbeatFirst ==
    /\ [](/\ \A i \in At("capture stop called") \cup At("disconnect called") :
                \A j \in At("heartbeat cancelled") : j < i
          /\ \A i \in At("disconnect called") :
                \A j \in (i + 1)..Len(order) :
                   order[j] \in {"disconnect returned", "disconnect raised",
                                  "shutdown complete"}
          /\ (At("capture stop called") # {} /\ hb_pc # "none")
             => At("heartbeat cancelled") # {})
    /\ [][Recorded("capture stop called") => hb_pc # "sleeping"]_vars

\* a shutdown that found the heartbeat task asleep and the scan loop in a
\* backoff wait
C20_Witness ==
    /\ order = <<"heartbeat cancelled", "heartbeat ended",
                 "capture stop called", "capture stop returned",
                 "disconnect called", "disconnect returned",
                 "shutdown complete">>
    /\ scan_pc = "cancelled"
    /\ waits = <<5>>

(***************************************************************************)
(* Properties of the detection sink                                        *)
(***************************************************************************)

\* a detection whose processing raised was delivered in this step; its record
\* is Last(sink_log')
Faulted == Len(sink_log') = Len(sink_log) + 1

\* C21: a failure anywhere in the per-event path (normalizing the detection,
\* the filter decision in the callback, the publish call) never leaves the
\* detection sink: the sink returns normally, that one event is dropped
\* (nothing is sent or counted as published for it), and the sink still
\* accepts later detections.
C21_SinkNeverRaises ==
    /\ [](\A i \in 1..Len(sink_log) : ~sink_log[i].escaped)
    /\ [][Faulted =>
             /\ ~Last(sink_log').escaped
             /\ UNCHANGED <<events, pubVars, messages_published,
                            status_pending>>]_vars
    /\ [][(Detected /\ Last(events').outcome = "raised") =>
             /\ ~Last(events').ret
             /\ messages_published' = messages_published
             /\ Last(tx_log').outcome = "raised"
             /\ UNCHANGED <<loop, sink_log>>]_vars
    /\ []((sink_log # <<>> \/ \E i \in 1..Len(events) :
                                   events[i].outcome = "raised")
            => \A raw \in RawAddrs : ENABLED handle_advertisement(raw))

\* a detection raised in the callback, and the next detection was published
C21_Witness ==
    /\ Len(sink_log) = 1
    /\ sink_log[1].stage = "callback"
    /\ sink_log[1].after = 0
    /\ Len(events) = 1
    /\ events[1].called /\ events[1].ret
    /\ messages_published = 1

(***************************************************************************)
(* Properties of the publisher's notifications and counters                *)
(***************************************************************************)

BackoffSchedule == <<5, 10, 15, 20, 25, 30, 30, 30, 30>>

C24_StaysScanning ==
    [][/\ ScanState = "Scanning"
          => \/ /\ ScanState' = "Scanning"
                /\ attempts' = attempts
                /\ receiver' = "started"
                /\ scan_pc' = "scanning"
             \/ /\ StopCalled
                /\ ScanState' = "Idle"
                /\ attempts' = attempts
       /\ polls' > polls
          => /\ ScanState = "Scanning" /\ ScanState' = "Scanning"
             /\ TaskAlive'
             /\ UNCHANGED <<running, receiver, attempts, retry_count, path>>]_vars

\* the 5 s wait has timed out and the machine is still Scanning, after one
\* receiver start
C24_Witness ==
    /\ polls = MaxPolls
    /\ ScanState = "Scanning"
    /\ attempts = 1
    /\ receiver = "started"
    /\ path = <<"Idle", "Starting", "Scanning">>

(***************************************************************************)
(* Properties of the heartbeat loop                                        *)
(***************************************************************************)

\* an iteration of the heartbeat loop ended in this step; how is Last(beats')
Beat == Len(beats') = Len(beats) + 1

\* C25: the heartbeat loop repeats sleep, build snapshot, publish status
\* until it is cancelled: an iteration whose build or publish fails leaves the
\* loop in its next sleep, the loop leaves its sleep for good only by the
\* cancellation of shutdown(), and once cancelled it publishes no status and
\* ends.
C25_HeartbeatLoop ==
    [][/\ Beat
          => /\ hb_pc = "sleeping" /\ hb_pc' = "sleeping"
             /\ IF Last(beats') = "build_raised"
                THEN UNCHANGED <<status_log, tx_log>>
                ELSE /\ StatusCalled
                     /\ Last(status_log').outcome = Last(beats')
                     /\ Last(status_log').ret = (Last(beats') = "ok")
       /\ (hb_pc = "sleeping" /\ hb_pc' # "sleeping")
          => /\ hb_pc' = "cancelling"
             /\ Recorded("heartbeat cancelled")
       /\ hb_pc \in {"cancelling", "done"}
          => /\ UNCHANGED <<beats, status_log, tx_log>>
             /\ hb_pc' \in {hb_pc, "done"}
       /\ (hb_pc # "done" /\ hb_pc' = "done")
          => hb_pc = "cancelling"]_vars

\* an iteration whose publish the transport rejected, a later iteration that
\* published, and then the cancellation, which ended the loop
C25_Witness ==
    /\ beats = <<"rejected", "ok">>
    /\ Len(status_log) = 2
    /\ ~status_log[1].ret /\ status_log[2].ret
    /\ hb_pc = "done"
    /\ Last(order) = "heartbeat ended"

(***************************************************************************)
(* Properties of the application's counters                                *)
(***************************************************************************)

\* the addresses of the detections handed to ScannerApp._handle_advertisement:
\* those it handled to the end and those in which it raised
HandedAddrs ==
    {events[i].addr : i \in 1..Len(events)}
    \cup {Upper(sink_log[i].raw) :
             i \in {j \in 1..Len(sink_log) : sink_log[j].stage = "callback"}}

\* C26: the devices-seen set holds the address of every detection handed to
\* the application's sink so far, whether that detection was blocklisted,
\* failed to publish or was published, and nothing else: no address is ever
\* removed from it.
C26_DevicesSeen == devices_seen = HandedAddrs

\* a blocklisted detection and one whose publish failed, both in the set
C26_Witness ==
    /\ Len(events) = 2
    /\ ~events[1].called /\ events[1].addr \in blocklist_devices
    /\ events[2].called /\ ~events[2].ret
    /\ devices_seen = {events[1].addr, events[2].addr}
    /\ Cardinality(devices_seen) = 2

\* the publish_advertisement calls that returned false
FailedCalls == {i \in 1..Len(events) : events[i].called /\ ~events[i].ret}

\* C28: the publisher's failure counter equals the number of
\* publish_advertisement calls that returned false, whether the publisher was
\* not connected, the transport rejected the send or the send raised; a call
\* returns true exactly when the transport accepted the message, and such a
\* call is not counted.
C28_FailureCounter ==
    /\ messages_failed = Cardinality(FailedCalls)
    /\ messages_published = Cardinality({i \in 1..Len(events) : events[i].ret})
    /\ \A i \in 1..Len(events) :
          /\ events[i].ret => events[i].called /\ events[i].outcome = "ok"
          /\ i \in FailedCalls
             => events[i].outcome \in {"none", "rejected", "raised"}
          /\ (events[i].called /\ ~events[i].conn) => events[i].outcome = "none"

\* a send the transport rejected and a send that raised: two failures counted
C28_Witness ==
    /\ Len(events) = 2
    /\ events[1].outcome = "rejected"
    /\ events[2].outcome = "raised"
    /\ messages_failed = 2
    /\ messages_published = 0

\* C27: on every successful connect notification the publisher sets connected
\* to true and then invokes the on-connect notification, by which the
\* application triggers a status publish, and that publish is attempted
\* while connected is true; a disconnect notification sets connected to
\* false and touches nothing else; a rejected connect sets connected to
\* false and triggers no status publish.
C27_ConnectNotifications ==
    [][/\ (~connected /\ connected')
          => /\ loop = "running"
             /\ StatusRequested < MaxStatus
                => /\ status_pending' = status_pending + 1
                   /\ loop' = loop
       /\ StatusCalled => Last(status_log').conn
       /\ (loop = "running" /\ ~connected')
          => /\ status_pending' <= status_pending
             /\ loop' = loop]_vars

\* the scan tasks that are alive and have no cancellation pending: the task
\* in _scan_task and the task start() replaced there
ActiveLoops ==
    (IF TaskAlive /\ ~CancelPending THEN 1 ELSE 0)
    + (IF old_task = "active" THEN 1 ELSE 0)

\* start() created a scan task in this step
TaskCreated == StartCalled /\ scan_pc' = "pending" /\ attempts' = 0 /\ running'

\* C29: at most one scan loop is active at any time and its attempt counter
\* lies in 0..10: start() called while the scanner is running creates no scan
\* task and no receiver, and start() creates a task only when the task before
\* it has ended or has been cancelled by stop(), also when start() is called
\* while a stop() is still waiting for the task it cancelled.
C29_SingleLoop ==
    /\ [](/\ ActiveLoops <= 1
          /\ old_task # "active"
          /\ retry_count \in 0..MaxRetries
          /\ attempts \in 0..MaxRetries
          /\ running => TaskAlive /\ ~CancelPending)
    /\ [][/\ (StartCalled /\ running)
             => UNCHANGED <<running, receiver, scan_pc, retry_count, attempts,
                            waits, path, old_task, stop_pc>>
          /\ (StartCalled /\ ~UNCHANGED <<scan_pc, receiver, old_task>>)
             => /\ TaskCreated
                /\ ~running
                /\ ~TaskAlive \/ CancelPending
                /\ receiver' = "created"]_vars

\* start() was called while stop() waits for the scan task it cancelled: the
\* new task is the only active one
C29_Witness ==
    /\ stop_pc = "await_task"
    /\ old_task = "cancelling"
    /\ running
    /\ scan_pc = "starting"
    /\ start_calls = 2 /\ stop_calls = 1
    /\ ActiveLoops = 1

====
